---- MODULE Spec2Model ----
(***************************************************************************)
(* The web client of the Avalon engine: the zustand game store, the socket *)
(* hook, the Game page, the GameBoard and the HumanControls, driven by a   *)
(* match server that is modelled from the specification of the rules       *)
(* engine (phase machine and visibility projector).                        *)
(***************************************************************************)
EXTENDS Integers, Sequences, FiniteSets, TLC

VARIABLES
    cfg,              \* per match: player count and human seat (fixed at creation)
    srv,              \* per match: the canonical match state held by the server
    page,             \* the route shown: "home" or "game"
    id,               \* the :id route parameter of the Game page
    loading,          \* Game.loading
    error,            \* Game.error !== null
    gameState,        \* store.gameState: <<>> for null, <<state>> otherwise
    humanSeat,        \* store.humanSeat (NoSeat for null)
    godMode,          \* store.godMode
    selectedPlayers,  \* store.selectedPlayers
    displayRound,     \* GameBoard.displayRound (ASSASSINATION for 'assassination')
    pending,          \* getGame requests in flight
    wire,             \* socket events sent by the server, not yet handled
    emitted,          \* the human action the last step emitted: <<>> or <<message>>
    submitted,        \* a human action was emitted since the last snapshot was applied
    home,             \* the state of the Home page (match-creation form, match list)
    replay,           \* the state of the Replay page (recorded states, playback)
    selectedMessage,  \* Discussion.selectedMessage: <<>> for null, <<message>> otherwise
    socket            \* the socket of the Game page: connection, room joined, last log

vars == <<cfg, srv, page, id, loading, error, gameState, humanSeat, godMode,
          selectedPlayers, displayRound, pending, wire, emitted, submitted,
          home, replay, selectedMessage, socket>>

----------------------------------------------------------------------------
\* Bounds of the model.

\* longest selection a user builds by clicking
MaxSel == 2
\* clicks go to the seats below MaxClick and to the last seat of the board
MaxClick == 1
\* socket events in flight from the server
MaxWire == 1
\* getGame requests in flight
MaxPending == 2
\* discussion entries a match collects
MaxDisc == 2
\* assassination-discussion entries a match collects
MaxADisc == 1

----------------------------------------------------------------------------
\* Values.

\* null / undefined of a seat-valued field
NoSeat == -1
\* displayRound === 'assassination'
ASSASSINATION == 0
\* new Date().toISOString() of the client, distinct from every server timestamp
ClientNow == 99

\* no match: the id of no route, the room of no join_game
NoMatch == 0

Matches == {1, 2}
PlayerCounts == 5..10
Rounds == 1..5
Seats(n) == 0..(n - 1)

Min(a, b) == IF a < b THEN a ELSE b

----------------------------------------------------------------------------
\* Rule tables.

\* QuestTracker.tsx: quest team sizes by player count
QUEST_SIZES(n) ==
    CASE n = 5 -> <<2, 3, 2, 3, 3>>
      [] n = 6 -> <<2, 3, 4, 3, 4>>
      [] n = 7 -> <<2, 3, 3, 4, 4>>
      [] n \in {8, 9, 10} -> <<3, 4, 4, 5, 5>>
      [] OTHER -> <<2, 3, 2, 3, 3>>

\* HumanControls.tsx: the local table and its "|| 2" fallback
requiredSize(player_count, current_round) ==
    IF player_count = 5 /\ current_round \in Rounds
      THEN <<2, 3, 2, 3, 3>>[current_round]
    ELSE IF player_count = 6 /\ current_round \in Rounds
      THEN <<2, 3, 4, 3, 4>>[current_round]
    ELSE 2

\* number of Evil players by player count
EvilCount(n) == CASE n \in {5, 6} -> 2 [] n \in {7, 8, 9} -> 3 [] OTHER -> 4

\* the role dealt to a seat: one Merlin, one Assassin, Minions, Loyal Servants
RoleOf(n, s) ==
    IF s = 0 THEN "merlin"
    ELSE IF s = 1 THEN "assassin"
    ELSE IF s <= EvilCount(n) THEN "minion"
    ELSE "loyal_servant"

TeamOf(role) ==
    CASE role \in {"merlin", "loyal_servant"} -> "good"
      [] role \in {"assassin", "minion"} -> "evil"
      [] OTHER -> "none"

\* the seats a human may hold in a match of n players (NoSeat: no human)
HumanSeats(n) == {NoSeat, 0, 1, n - 1}

----------------------------------------------------------------------------
\* The match server: canonical state, phase machine and visibility projector.

\* quests resolved so far that succeeded / failed
Successes(results) == Cardinality({k \in DOMAIN results : results[k]})
Failures(results) == Cardinality({k \in DOMAIN results : ~results[k]})

\* the human action a phase can wait for, by the human's role
HatChoices(c, phase) ==
    {"none"} \cup
    IF c.human = NoSeat THEN {}
    ELSE CASE phase = "team_selection" -> {"team_selection"}
           [] phase = "discussion" -> {"discussion", "leader_discussion"}
           [] phase = "team_vote" -> {"vote"}
           [] phase = "quest_execution" -> {"quest"}
           [] phase = "assassination_discussion" ->
                IF TeamOf(RoleOf(c.n, c.human)) = "evil"
                  THEN {"assassination_discussion"} ELSE {}
           [] phase = "assassination" ->
                IF RoleOf(c.n, c.human) = "assassin" THEN {"assassinate"} ELSE {}
           [] OTHER -> {}

\* a match at the start of round 1
NewMatch(hat) ==
    [phase |-> "team_selection", round |-> 1, hat |-> hat, results |-> <<>>,
     disc |-> <<>>, adisc |-> <<>>, target |-> NoSeat, winner |-> "none"]

\* the canonical record of a resolved quest: the team is the first seats of the
\* board; in a failed quest its Evil members voted fail
QuestRecord(n, k, success, reveal) ==
    LET team == Seats(QUEST_SIZES(n)[k])
        vote(s) == success \/ TeamOf(RoleOf(n, s)) = "good"
    IN [round |-> k,
        success |-> success,
        fail_votes |-> Cardinality({s \in team : ~vote(s)}),
        quest_votes |-> IF reveal THEN [s \in team |-> vote(s)]
                        ELSE [s \in {} |-> TRUE]]

\* knowledge grant of the observing seat h about seat s: "all", "team" or "none"
Grant(n, h, s) ==
    IF h = NoSeat THEN "none"
    ELSE IF h = s THEN "all"
    ELSE LET mine == RoleOf(n, h)
             theirs == RoleOf(n, s)
         IN IF TeamOf(mine) = "evil" /\ TeamOf(theirs) = "evil" THEN "all"
            ELSE IF mine = "merlin" /\ TeamOf(theirs) = "evil" THEN "team"
            ELSE "none"

\* the view of one player the server hands to the match's observer
ProjectPlayer(c, s, seat, reveal) ==
    LET g == IF reveal \/ s.phase = "game_over" THEN "all" ELSE Grant(c.n, c.human, seat)
    IN [seat |-> seat,
        role |-> IF g = "all" THEN RoleOf(c.n, seat) ELSE "none",
        team |-> IF g \in {"all", "team"} THEN TeamOf(RoleOf(c.n, seat)) ELSE "none",
        is_human |-> (seat = c.human)]

\* may the match's observer read the Evil team's private discussion
SeesAssassinationDiscussion(c, reveal) ==
    reveal \/ (c.human # NoSeat /\ TeamOf(RoleOf(c.n, c.human)) = "evil")

\* the filtered snapshot of match m in canonical state s
Project(m, c, s, reveal) ==
    [id |-> m,
     status |-> IF s.phase = "game_over" THEN "finished" ELSE "in_progress",
     phase |-> s.phase,
     current_round |-> s.round,
     player_count |-> c.n,
     players |-> [i \in 1..c.n |-> ProjectPlayer(c, s, i - 1, reveal)],
     waiting_for_human |-> (s.hat # "none"),
     human_action_type |-> s.hat,
     quest_results |->
        [k \in DOMAIN s.results |-> QuestRecord(c.n, k, s.results[k], reveal)],
     discussion_history |-> s.disc,
     assassination_discussion_history |->
        IF SeesAssassinationDiscussion(c, reveal) THEN s.adisc ELSE <<>>,
     assassinated_player |-> s.target,
     winner |-> s.winner]

\* the outcomes a quest can have: the first three quests succeed, fail and
\* succeed, the later ones are open
Outcomes(round) == IF round < 4 THEN {round % 2 = 1} ELSE BOOLEAN

\* the canonical states that may follow s in one step of the phase machine
PhaseSuccessors(c, s) ==
    LET enter(phase, round, results) ==
            {[s EXCEPT !.phase = phase, !.round = round, !.results = results,
                       !.hat = h] : h \in HatChoices(c, phase)}
        over(results, target, winner) ==
            {[s EXCEPT !.phase = "game_over", !.results = results, !.hat = "none",
                       !.target = target, !.winner = winner]}
        resolve(b) ==
            LET r == Append(s.results, b)
            IN IF Failures(r) >= 3 THEN over(r, NoSeat, "evil")
               ELSE IF Successes(r) >= 3
                 THEN enter("assassination_discussion", s.round, r)
               ELSE enter("team_selection", s.round + 1, r)
    IN CASE s.phase = "team_selection" -> enter("discussion", s.round, s.results)
         [] s.phase = "discussion" -> enter("team_vote", s.round, s.results)
         [] s.phase = "team_vote" ->
              enter("quest_execution", s.round, s.results)
              \cup enter("team_selection", s.round, s.results)
              \cup over(s.results, NoSeat, "evil")
         [] s.phase = "quest_execution" -> UNION {resolve(b) : b \in Outcomes(s.round)}
         [] s.phase = "assassination_discussion" ->
              enter("assassination", s.round, s.results)
         [] s.phase = "assassination" ->
              UNION {over(s.results, t, IF RoleOf(c.n, t) = "merlin" THEN "evil" ELSE "good")
                     : t \in {x \in Seats(c.n) : x < MaxClick \/ x = c.n - 1}}
         [] OTHER -> {}

----------------------------------------------------------------------------
\* The game store (zustand).

\* the loaded state; only read where gameState is non-null
GS == gameState[1]

\* players.find((p) => p.seat === seat): the indexes holding that seat
FindSeat(players, seat) == {i \in DOMAIN players : players[i].seat = seat}

\* mutant: the held roles are kept with god mode off as well
setGameStateAlwaysMerge(current, god, state) ==
    IF current # <<>>
      THEN LET held(player) ==
                   {i \in DOMAIN current[1].players :
                       current[1].players[i].seat = player.seat}
               merge(player) ==
                   IF held(player) # {} /\ player.role = "none"
                     THEN LET e == current[1].players[CHOOSE i \in held(player) : TRUE]
                          IN IF e.role # "none"
                               THEN [player EXCEPT !.role = e.role, !.team = e.team]
                             ELSE player
                   ELSE player
           IN <<[state EXCEPT !.players = [i \in DOMAIN state.players |-> merge(state.players[i])]]>>
    ELSE <<state>>

\* setGameState: in god mode keep the held role and team of a seat the new
\* snapshot gives no role for
setGameState(current, god, state) ==
    IF god /\ current # <<>>
      THEN LET existingPlayers == current[1].players
               merge(player) ==
                   LET found == FindSeat(existingPlayers, player.seat)
                   IN IF found # {} /\ player.role = "none"
                         /\ existingPlayers[CHOOSE i \in found : \A j \in found : i <= j].role # "none"
                        THEN LET existingPlayer ==
                                     existingPlayers[CHOOSE i \in found : \A j \in found : i <= j]
                             IN [player EXCEPT !.role = existingPlayer.role,
                                               !.team = existingPlayer.team]
                      ELSE player
           IN <<[state EXCEPT !.players = [i \in DOMAIN state.players |-> merge(state.players[i])]]>>
    ELSE <<state>>

\* mutant: the new entry is put in front
addDiscussionFirst(current, message) ==
    IF current # <<>>
      THEN <<[current[1] EXCEPT !.discussion_history = <<message>> \o @]>>
    ELSE <<>>

\* addDiscussion: append to discussion_history, null stays null
addDiscussion(current, message) ==
    IF current # <<>>
      THEN <<[current[1] EXCEPT !.discussion_history = Append(@, message)]>>
    ELSE <<>>

\* addAssassinationDiscussion
addAssassinationDiscussion(current, message) ==
    IF current # <<>>
      THEN <<[current[1] EXCEPT !.assassination_discussion_history = Append(@, message)]>>
    ELSE <<>>

\* selectedPlayers.includes(seat)
Includes(selection, seat) == \E i \in DOMAIN selection : selection[i] = seat

\* selectedPlayers.filter((s) => s !== seat)
RECURSIVE Without(_, _)
Without(selection, seat) ==
    IF selection = <<>> THEN <<>>
    ELSE IF Head(selection) = seat THEN Without(Tail(selection), seat)
    ELSE <<Head(selection)>> \o Without(Tail(selection), seat)

\* mutant: a click always adds the seat
togglePlayerSelectionAppend(selection, seat) == Append(selection, seat)

\* togglePlayerSelection
togglePlayerSelection(selection, seat) ==
    IF Includes(selection, seat) THEN Without(selection, seat)
    ELSE Append(selection, seat)

\* clearSelection
clearSelection == <<>>

----------------------------------------------------------------------------
\* The socket hook: events and messages.

StateEvent(state) ==
    [type |-> "game:state", state |-> <<state>>, seat |-> NoSeat, round |-> 0,
     attempt |-> 0, timestamp |-> 0]

\* timestamp 0 stands for an event that carries none
DiscussionEvent(type, seat, round, attempt, timestamp) ==
    [type |-> type, state |-> <<>>, seat |-> seat, round |-> round,
     attempt |-> attempt, timestamp |-> timestamp]

\* data.timestamp || new Date().toISOString()
TimestampOf(data) == IF data.timestamp # 0 THEN data.timestamp ELSE ClientNow

\* the DiscussionMessage built by the game:discussion handler
DiscussionMessage(data) ==
    [seat |-> data.seat, round |-> data.round, attempt |-> data.attempt,
     timestamp |-> TimestampOf(data)]

\* the AssassinationDiscussionMessage built by its handler
AssassinationDiscussionMessage(data) ==
    [seat |-> data.seat, timestamp |-> TimestampOf(data)]

\* socket.emit(type, { game_id, ... })
Emit(type, game_id, team, flag, target) ==
    [type |-> type, game_id |-> game_id, team |-> team, flag |-> flag, target |-> target]

\* the events whose handlers only log
Notifications == {"game:vote_result", "game:quest_result", "game:assassination"}

NotificationEvent(type) ==
    [type |-> type, state |-> <<>>, seat |-> NoSeat, round |-> 0, attempt |-> 0,
     timestamp |-> 0]

\* no socket: the Game page is not mounted
SocketIdle == [connected |-> FALSE, room |-> NoMatch, logged |-> "none"]

\* the socket the Game page creates on mount, once it is connected and the
\* buffered join_game of the mount effect has left: room is the match of the
\* join_game emitted since the latest connect
Connected(m) == [connected |-> TRUE, room |-> m, logged |-> "none"]

----------------------------------------------------------------------------
\* The Game page, the GameBoard and the HumanControls.

\* the board and the controls are rendered: not loading, no error, a state
Mounted(pg, ld, er, gs) == pg = "game" /\ ~ld /\ ~er /\ gs # <<>>

BoardMounted == Mounted(page, loading, error, gameState)

\* Game.isHumanTurn
isHumanTurn == GS.waiting_for_human /\ humanSeat # NoSeat

\* HumanControls is rendered
ControlsMounted == BoardMounted /\ isHumanTurn

\* HumanControls.actionType
actionType == GS.human_action_type

\* HumanControls.isEvil: players[humanSeat]?.team === 'evil'
isEvil ==
    /\ humanSeat # NoSeat
    /\ humanSeat + 1 \in DOMAIN GS.players
    /\ GS.players[humanSeat + 1].team = "evil"

\* mutant: a finished match does not count
showRolesUnlessFinished(state, seat, god) == seat # NoSeat \/ god

\* GameBoard.showRoles
showRoles(state, seat, god) == state.status = "finished" \/ seat # NoSeat \/ god

\* mutant: a finished match keeps the round shown
DisplayEffectKeptAtGameOver(state, dr) ==
    IF state.phase \in {"assassination_discussion", "assassination"} THEN ASSASSINATION
    ELSE IF state.current_round # 0 /\ state.phase # "game_over" THEN state.current_round
    ELSE dr

\* the displayRound effect: runs on mount and when round or phase change
DisplayEffect(state, dr) ==
    IF state.phase \in {"assassination_discussion", "assassination"} THEN ASSASSINATION
    ELSE IF state.current_round # 0 THEN state.current_round
    ELSE dr

\* displayRound after a step from the unprimed to the given page and store
DisplayAfter(pg, ld, er, gs) ==
    IF ~Mounted(pg, ld, er, gs) THEN 1
    ELSE IF ~BoardMounted THEN DisplayEffect(gs[1], gs[1].current_round)
    ELSE IF gs[1].current_round # GS.current_round \/ gs[1].phase # GS.phase
      THEN DisplayEffect(gs[1], displayRound)
    ELSE displayRound

----------------------------------------------------------------------------
\* The state of the Home page.

\* rows of the form the user edits: the first MaxRow rows
MaxRow == 1

\* useState(5)
DefaultPlayerCount == 5
\* Math.max(5, c - 1), disabled={playerCount <= 5}
MinPlayerCount == 5
\* Math.min(6, c + 1), disabled={playerCount >= 6}
MaxPlayerCount == 6

\* ModelInfo entries the server may list; "" stands for a missing name
OkModel == [provider |-> "deepseek", model |-> "chat"]
BadModel == [provider |-> "openai", model |-> ""]

\* the answers of getAvailableModels: nothing configured, or two entries
ModelLists == {<<>>, <<OkModel, BadModel>>}

\* the effect on [playerCount, models]: one PlayerConfig per seat, keeping what
\* the row at that index already holds and filling the rest from models[0]
InitPlayers(count, existing, ms) ==
    [i \in 1..count |->
        LET held == i \in DOMAIN existing
            first(field) == IF ms # <<>> THEN ms[1][field] ELSE ""
        IN [seat |-> i - 1,
            is_human |-> held /\ existing[i].is_human,
            model |-> IF held /\ existing[i].model # "" THEN existing[i].model
                      ELSE first("model"),
            provider |-> IF held /\ existing[i].provider # "" THEN existing[i].provider
                         ELSE first("provider")]]

\* the Home page as it mounts: loadData in flight, five default rows
HomeFresh ==
    [playerCount |-> DefaultPlayerCount,
     players |-> InitPlayers(DefaultPlayerCount, <<>>, <<>>),
     models |-> <<>>,
     games |-> <<>>,
     loading |-> TRUE,
     creating |-> FALSE,
     created |-> <<>>,
     alert |-> "none"]

\* Home unmounts or mounts anew: its state is lost, a createGame request in
\* flight stays in flight but no longer belongs to a mounted form
Remount(h) ==
    [HomeFresh EXCEPT !.created =
        [i \in DOMAIN h.created |-> [h.created[i] EXCEPT !.live = FALSE]]]

----------------------------------------------------------------------------
\* The state of the Replay page.

\* recorded states a replay holds
MaxStates == 3

\* a prop that is not passed (GameBoard.humanSeat on the Replay page)
Undefined == -2

\* the Replay page as it mounts: getGameReplay in flight; last is the handler
\* that ran last and was the value of playing it found
ReplayIdle ==
    [states |-> <<>>, currentIndex |-> 0, playing |-> FALSE, timer |-> FALSE,
     loading |-> TRUE, error |-> FALSE, last |-> "none", was |-> FALSE]

----------------------------------------------------------------------------
\* Actions of the user, the network and the server.

\* the seats a click can go to: the cards of the rendered players, bounded
ClickSeats ==
    {GS.players[i].seat : i \in {j \in DOMAIN GS.players :
                                   j - 1 < MaxClick \/ j = Len(GS.players)}}

Request(m, revealAll, live) == [id |-> m, revealAll |-> revealAll, live |-> live]

\* Home: navigate(`/game/${id}`); Game mounts: loadGame(godMode), joinGame(id)
OpenGame(m) ==
    /\ page = "home"
    /\ Cardinality(pending) < MaxPending
    /\ page' = "game"
    /\ id' = m
    /\ loading' = TRUE
    /\ error' = FALSE
    /\ pending' = pending \cup {Request(m, godMode, TRUE)}
    /\ wire' = <<>>
    /\ emitted' = <<>>
    /\ submitted' = FALSE
    /\ displayRound' = 1
    /\ home' = Remount(home)
    /\ socket' = Connected(m)
    /\ selectedMessage' = <<>>
    /\ UNCHANGED <<replay, cfg, srv, gameState, humanSeat, godMode, selectedPlayers>>

\* Game: navigate('/'); the page unmounts, the socket disconnects, the store
\* and the requests in flight stay
Back ==
    /\ page = "game"
    /\ ~loading
    /\ page' = "home"
    /\ id' = NoMatch
    /\ loading' = FALSE
    /\ error' = FALSE
    /\ pending' = {Request(r.id, r.revealAll, FALSE) : r \in pending}
    /\ wire' = <<>>
    /\ emitted' = <<>>
    /\ submitted' = FALSE
    /\ displayRound' = 1
    /\ home' = Remount(home)
    /\ socket' = SocketIdle
    /\ selectedMessage' = <<>>
    /\ UNCHANGED <<replay, cfg, srv, gameState, humanSeat, godMode, selectedPlayers>>

\* loadGame after await getGame(id, revealAll) resolved
LoadResponse(r) ==
    /\ r \in pending
    /\ LET game == Project(r.id, cfg[r.id], srv[r.id], r.revealAll)
           gs == setGameState(gameState, godMode, game)
           humans == {i \in DOMAIN game.players : game.players[i].is_human}
           ld == IF r.live THEN FALSE ELSE loading
       IN /\ gameState' = gs
          /\ humanSeat' = IF humans # {}
                            THEN game.players[CHOOSE i \in humans : \A j \in humans : i <= j].seat
                          ELSE humanSeat
          /\ loading' = ld
          /\ displayRound' = DisplayAfter(page, ld, error, gs)
    /\ pending' = pending \ {r}
    /\ emitted' = <<>>
    /\ submitted' = FALSE
    /\ UNCHANGED <<selectedMessage, socket, home, replay, cfg, srv, page, id, error, godMode, selectedPlayers, wire>>

\* loadGame after getGame threw
LoadFail(r) ==
    /\ r \in pending
    /\ pending' = pending \ {r}
    /\ error' = (IF r.live THEN TRUE ELSE error)
    /\ loading' = (IF r.live THEN FALSE ELSE loading)
    /\ displayRound' = DisplayAfter(page, loading', error', gameState)
    /\ selectedMessage' = (IF r.live THEN <<>> ELSE selectedMessage)
    /\ emitted' = <<>>
    /\ UNCHANGED <<socket, home, replay, cfg, srv, page, id, gameState, humanSeat, godMode,
                   selectedPlayers, wire, submitted>>

\* handleToggleGodMode and the reload effect on godMode
ToggleGodMode ==
    /\ BoardMounted
    /\ Cardinality(pending) < MaxPending
    /\ godMode' = ~godMode
    /\ pending' = pending \cup {Request(id, ~godMode, TRUE)}
    /\ emitted' = <<>>
    /\ UNCHANGED <<selectedMessage, socket, home, replay, cfg, srv, page, id, loading, error, gameState, humanSeat,
                   selectedPlayers, displayRound, wire, submitted>>

\* the server commits a phase transition of the watched match and broadcasts
\* the filtered snapshot
ServerAdvance(m) ==
    /\ socket.room = m
    /\ Len(wire) < MaxWire
    /\ \E s2 \in PhaseSuccessors(cfg[m], srv[m]) :
          /\ srv' = [srv EXCEPT ![m] = s2]
          /\ wire' = Append(wire, StateEvent(Project(m, cfg[m], s2, FALSE)))
    /\ emitted' = <<>>
    /\ UNCHANGED <<selectedMessage, socket, home, replay, cfg, page, id, loading, error, gameState, humanSeat, godMode,
                   selectedPlayers, displayRound, pending, submitted>>

\* the server commits a discussion entry and notifies the room
ServerDiscuss(m) ==
    /\ socket.room = m
    /\ Len(wire) < MaxWire
    /\ srv[m].phase = "discussion"
    /\ Len(srv[m].disc) < MaxDisc
    /\ \E seat \in {0, cfg[m].n - 1}, attempt \in {Undefined, 1, 2}, carried \in BOOLEAN :
          LET ts == Len(srv[m].disc) + 1
              entry == [seat |-> seat, round |-> srv[m].round, attempt |-> attempt,
                        timestamp |-> ts]
          IN /\ srv' = [srv EXCEPT ![m].disc = Append(@, entry)]
             /\ wire' = Append(wire, DiscussionEvent("game:discussion", seat,
                                  srv[m].round, attempt, IF carried THEN ts ELSE 0))
    /\ emitted' = <<>>
    /\ UNCHANGED <<selectedMessage, socket, home, replay, cfg, page, id, loading, error, gameState, humanSeat, godMode,
                   selectedPlayers, displayRound, pending, submitted>>

\* the server commits an entry of the Evil team's private discussion and
\* notifies the observers entitled to it
ServerAssassinationDiscuss(m) ==
    /\ socket.room = m
    /\ Len(wire) < MaxWire
    /\ srv[m].phase = "assassination_discussion"
    /\ Len(srv[m].adisc) < MaxADisc
    /\ LET ts == Len(srv[m].adisc) + 1
       IN /\ srv' = [srv EXCEPT ![m].adisc = Append(@, [seat |-> 1, timestamp |-> ts])]
          /\ wire' = IF SeesAssassinationDiscussion(cfg[m], FALSE)
                       THEN Append(wire, DiscussionEvent("game:assassination_discussion",
                                                         1, 0, 0, ts))
                     ELSE wire
    /\ emitted' = <<>>
    /\ UNCHANGED <<selectedMessage, socket, home, replay, cfg, page, id, loading, error, gameState, humanSeat, godMode,
                   selectedPlayers, displayRound, pending, submitted>>

\* mutant: a notification drops the loaded state
SocketOnDropping(current, god, data) ==
    CASE data.type = "game:state" -> setGameState(current, god, data.state[1])
      [] data.type = "game:discussion" -> addDiscussion(current, DiscussionMessage(data))
      [] data.type = "game:assassination_discussion" ->
           addAssassinationDiscussion(current, AssassinationDiscussionMessage(data))
      [] OTHER -> <<>>

\* socket.on(type, handler): the store's game state after the handler of the
\* event ran; the handlers of the three notifications only log
SocketOn(current, god, data) ==
    CASE data.type = "game:state" -> setGameState(current, god, data.state[1])
      [] data.type = "game:discussion" -> addDiscussion(current, DiscussionMessage(data))
      [] data.type = "game:assassination_discussion" ->
           addAssassinationDiscussion(current, AssassinationDiscussionMessage(data))
      [] OTHER -> current

\* an event arrives: the handler of the event at the head of the wire runs
SockRecv ==
    /\ wire # <<>>
    /\ LET data == Head(wire)
           gs == SocketOn(gameState, godMode, data)
       IN /\ gameState' = gs
          /\ displayRound' = DisplayAfter(page, loading, error, gs)
          /\ submitted' = IF data.type = "game:state" THEN FALSE ELSE submitted
          /\ socket' = [socket EXCEPT !.logged = IF data.type \in Notifications
                                                     THEN data.type ELSE "none"]
    /\ wire' = Tail(wire)
    /\ emitted' = <<>>
    /\ UNCHANGED <<selectedMessage, home, replay, cfg, srv, page, id, loading, error, humanSeat, godMode,
                   selectedPlayers, pending>>

\* the server resolves a vote, a quest or the assassination of the watched
\* match and notifies the room, before it commits the phase transition
ServerNotify(m) ==
    /\ socket.room = m
    /\ Len(wire) < MaxWire
    /\ srv[m].phase \in {"team_vote", "quest_execution", "assassination"}
    /\ wire' = Append(wire, NotificationEvent(
                   CASE srv[m].phase = "team_vote" -> "game:vote_result"
                     [] srv[m].phase = "quest_execution" -> "game:quest_result"
                     [] OTHER -> "game:assassination"))
    /\ emitted' = <<>>
    /\ UNCHANGED <<selectedMessage, socket, home, replay, cfg, srv, page, id, loading, error, gameState,
                   humanSeat, godMode, selectedPlayers, displayRound, pending, submitted>>

\* the connection drops: socket.on('disconnect'); the events in flight are
\* lost and the server takes the connection out of its rooms
Disconnect ==
    /\ page = "game"
    /\ socket.connected
    /\ socket' = [socket EXCEPT !.connected = FALSE, !.room = NoMatch]
    /\ wire' = <<>>
    /\ emitted' = <<>>
    /\ UNCHANGED <<selectedMessage, home, replay, cfg, srv, page, id, loading, error, gameState, humanSeat,
                   godMode, selectedPlayers, displayRound, pending, submitted>>

\* the client connects again: socket.on('connect') sets the connected flag
\* and emits nothing
Reconnect ==
    /\ page = "game"
    /\ ~socket.connected
    /\ socket' = [socket EXCEPT !.connected = TRUE]
    /\ emitted' = <<>>
    /\ UNCHANGED <<selectedMessage, home, replay, cfg, srv, page, id, loading, error, gameState, humanSeat,
                   godMode, selectedPlayers, displayRound, pending, wire, submitted>>

\* GameBoard.onPlayerClick = togglePlayerSelection, only on the human's turn
\* to select a team or a target
ClickPlayer(seat) ==
    /\ ControlsMounted
    /\ actionType \in {"team_selection", "assassinate"}
    /\ seat \in ClickSeats
    /\ Len(togglePlayerSelection(selectedPlayers, seat)) <= MaxSel
    /\ selectedPlayers' = togglePlayerSelection(selectedPlayers, seat)
    /\ emitted' = <<>>
    /\ UNCHANGED <<selectedMessage, socket, home, replay, cfg, srv, page, id, loading, error, gameState, humanSeat, godMode,
                   displayRound, pending, wire, submitted>>

\* mutant: the handler is passed on every turn of the human
onPlayerClickOnEveryTurn == isHumanTurn

\* the onPlayerClick prop of the GameBoard is togglePlayerSelection (TRUE) or
\* undefined (FALSE)
onPlayerClick ==
    isHumanTurn /\ (GS.human_action_type = "team_selection"
                     \/ GS.human_action_type = "assassinate")

\* a click on the card of a player, whatever the board waits for: the card's
\* onClick calls onPlayerClick(player.seat) if the prop is passed
ClickCard(seat) ==
    /\ BoardMounted
    /\ seat \in ClickSeats
    /\ selectedPlayers' = IF onPlayerClick
                             THEN togglePlayerSelection(selectedPlayers, seat)
                           ELSE selectedPlayers
    /\ Len(selectedPlayers') <= MaxSel
    /\ emitted' = <<>>
    /\ UNCHANGED <<selectedMessage, socket, home, replay, cfg, srv, page, id, loading, error, gameState,
                   humanSeat, godMode, displayRound, pending, wire, submitted>>

\* a human action leaves through the socket
Send(msg) ==
    /\ emitted' = <<msg>>
    /\ submitted' = TRUE

\* the team button (disabled unless the selection has the required size) and
\* handleTeamSelect
SubmitTeam ==
    /\ ControlsMounted
    /\ actionType = "team_selection"
    /\ Len(selectedPlayers) = requiredSize(GS.player_count, GS.current_round)
    /\ Len(selectedPlayers) > 0
    /\ Send(Emit("human_team_select", id, selectedPlayers, FALSE, NoSeat))
    /\ selectedPlayers' = clearSelection
    /\ UNCHANGED <<selectedMessage, socket, home, replay, cfg, srv, page, id, loading, error, gameState, humanSeat, godMode,
                   displayRound, pending, wire>>

\* handleSendDiscussion with a non-blank input, handleDiscussion
SendDiscussion ==
    /\ ControlsMounted
    /\ actionType \in {"discussion", "leader_discussion"}
    /\ Send(Emit("human_discussion", id, <<>>, FALSE, NoSeat))
    /\ UNCHANGED <<selectedMessage, socket, home, replay, cfg, srv, page, id, loading, error, gameState, humanSeat, godMode,
                   selectedPlayers, displayRound, pending, wire>>

\* the two vote buttons, handleVote
Vote(approve) ==
    /\ ControlsMounted
    /\ actionType = "vote"
    /\ Send(Emit("human_vote", id, <<>>, approve, NoSeat))
    /\ UNCHANGED <<selectedMessage, socket, home, replay, cfg, srv, page, id, loading, error, gameState, humanSeat, godMode,
                   selectedPlayers, displayRound, pending, wire>>

\* mutant: the fail button is offered to every human
QuestButtonsForAll == {TRUE, FALSE}

\* the quest buttons the human is offered
QuestButtons == IF isEvil THEN {TRUE, FALSE} ELSE {TRUE}

\* the quest buttons, handleQuestVote
QuestVote(success) ==
    /\ ControlsMounted
    /\ actionType = "quest"
    /\ success \in QuestButtons
    /\ Send(Emit("human_quest", id, <<>>, success, NoSeat))
    /\ UNCHANGED <<selectedMessage, socket, home, replay, cfg, srv, page, id, loading, error, gameState, humanSeat, godMode,
                   selectedPlayers, displayRound, pending, wire>>

\* the assassination-discussion input, handleAssassinationDiscussion
SendAssassinationDiscussion ==
    /\ ControlsMounted
    /\ actionType = "assassination_discussion"
    /\ Send(Emit("human_assassination_discussion", id, <<>>, FALSE, NoSeat))
    /\ UNCHANGED <<selectedMessage, socket, home, replay, cfg, srv, page, id, loading, error, gameState, humanSeat, godMode,
                   selectedPlayers, displayRound, pending, wire>>

\* the assassinate button (shown for a non-empty selection), handleAssassinate
Assassinate ==
    /\ ControlsMounted
    /\ actionType = "assassinate"
    /\ Len(selectedPlayers) > 0
    /\ Send(Emit("human_assassinate", id, <<>>, FALSE, selectedPlayers[1]))
    /\ UNCHANGED <<selectedMessage, socket, home, replay, cfg, srv, page, id, loading, error, gameState, humanSeat, godMode,
                   selectedPlayers, displayRound, pending, wire>>

\* QuestTracker.showAssassination
showAssassination(state) ==
    \/ Cardinality({k \in DOMAIN state.quest_results : state.quest_results[k].success}) >= 3
    \/ state.phase \in {"assassination_discussion", "assassination", "game_over"}

\* the verdict of the game_over banner and of the tracker's assassination
\* marker, rendered when the snapshot carries an assassinated player
AssassinationVerdict(state) ==
    IF state.phase = "game_over" /\ state.assassinated_player # NoSeat
      THEN IF state.winner = "good" THEN "good_wins" ELSE "evil_wins"
    ELSE "none"

\* mutant: the marker tests the winner the other way round
TrackerVerdictSwapped(state) ==
    IF state.phase = "game_over" /\ state.assassinated_player # NoSeat
      THEN IF state.winner = "good" THEN "evil_wins" ELSE "good_wins"
    ELSE "none"

\* the result label under the tracker's assassination marker: success of the
\* assassination ("evil_wins") for winner evil, failure ("good_wins") otherwise
TrackerVerdict(state) ==
    IF state.phase = "game_over" /\ state.assassinated_player # NoSeat
      THEN IF state.winner = "evil" THEN "evil_wins" ELSE "good_wins"
    ELSE "none"

\* QuestTracker.onRoundClick = setDisplayRound
ClickRound(round) ==
    /\ BoardMounted
    /\ round \in Rounds \/ (round = ASSASSINATION /\ showAssassination(GS))
    /\ displayRound' = round
    /\ emitted' = <<>>
    /\ UNCHANGED <<selectedMessage, socket, home, replay, cfg, srv, page, id, loading, error, gameState, humanSeat, godMode,
                   selectedPlayers, pending, wire, submitted>>

\* GameBoard.assassinationMessages: the Evil team's entries with the current
\* round and the placeholder attempt 0
assassinationMessages(state) ==
    [i \in DOMAIN state.assassination_discussion_history |->
        [seat |-> state.assassination_discussion_history[i].seat,
         round |-> state.current_round,
         attempt |-> 0,
         timestamp |-> state.assassination_discussion_history[i].timestamp]]

\* GameBoard.isAssassination
isAssassination == displayRound = ASSASSINATION

\* the messages prop of the Discussion
messages == IF isAssassination THEN assassinationMessages(GS) ELSE GS.discussion_history

\* Discussion.filteredMessages, as indexes of the messages prop
filteredMessages ==
    LET shown == IF isAssassination THEN GS.current_round ELSE displayRound
    IN {i \in DOMAIN messages :
           (IF messages[i].round # 0 THEN messages[i].round ELSE 1) = shown}

\* Discussion.isClickable: the message of a player that is not the human
isClickable(msg) ==
    \A i \in FindSeat(GS.players, msg.seat) : ~GS.players[i].is_human

\* the actionType prop of the LLMDetailModal of a message
ModalActionType == IF isAssassination THEN "assassination_discussion" ELSE "discussion"

\* String(n) of a small number
String(n) == <<"0", "1", "2", "3", "4", "5", "6", "7", "8", "9">>[n + 1]

\* mutant: the attempt is sent whenever the entry has one
fetchDetailsAnyAttempt(gameId, msg, type) ==
    IF msg.timestamp = 0 THEN <<>>
    ELSE <<[game_id |-> gameId,
            round_num |-> String(msg.round),
            player_seat |-> String(msg.seat),
            timestamp |-> msg.timestamp,
            action_type |-> type,
            attempt |-> IF msg.attempt # Undefined
                          THEN <<String(msg.attempt)>> ELSE <<>>]>>

\* LLMDetailModal.fetchDetails for a discussion entry: <<>> if nothing is
\* requested, else the parameters of the discussion-llm-details request;
\* attempt is <<>> where the parameter is not set
fetchDetails(gameId, msg, type) ==
    IF msg.timestamp = 0 THEN <<>>
    ELSE <<[game_id |-> gameId,
            round_num |-> String(msg.round),
            player_seat |-> String(msg.seat),
            timestamp |-> msg.timestamp,
            action_type |-> type,
            attempt |-> IF msg.attempt # Undefined /\ msg.attempt > 0
                          THEN <<String(msg.attempt)>> ELSE <<>>]>>

\* the request the open modal made last: its effect runs fetchDetails when
\* the modal opens and whenever the action type changes
requested ==
    IF selectedMessage = <<>> THEN <<>>
    ELSE fetchDetails(GS.id, selectedMessage[1], ModalActionType)

\* a click on a message of the Discussion: setSelectedMessage(msg)
ClickMessage(i) ==
    /\ BoardMounted
    /\ selectedMessage = <<>>
    /\ i \in filteredMessages
    /\ isClickable(messages[i])
    /\ selectedMessage' = <<messages[i]>>
    /\ emitted' = <<>>
    /\ UNCHANGED <<socket, home, replay, cfg, srv, page, id, loading, error, gameState,
                   humanSeat, godMode, selectedPlayers, displayRound, pending, wire,
                   submitted>>

\* the modal's onClose: setSelectedMessage(null)
CloseModal ==
    /\ BoardMounted
    /\ selectedMessage # <<>>
    /\ selectedMessage' = <<>>
    /\ emitted' = <<>>
    /\ UNCHANGED <<socket, home, replay, cfg, srv, page, id, loading, error, gameState,
                   humanSeat, godMode, selectedPlayers, displayRound, pending, wire,
                   submitted>>

----------------------------------------------------------------------------
\* The Home page: the match-creation form and the match list.

\* the plus and minus buttons are enabled
PlusEnabled == ~(home.playerCount >= MaxPlayerCount)
MinusEnabled == ~(home.playerCount <= MinPlayerCount)

\* mutant: no row is checked
ValidAlways(rows) == TRUE

\* handleCreateGame's validation loop: no automated row lacks model or provider
Valid(rows) ==
    \A i \in DOMAIN rows :
        ~(~rows[i].is_human /\ (rows[i].model = "" \/ rows[i].provider = ""))

\* the entry of a match in the answer of getGames
Summary(m) ==
    [id |-> m,
     status |-> IF srv[m].phase = "game_over" THEN "finished" ELSE "in_progress",
     winner |-> srv[m].winner,
     player_count |-> cfg[m].n]

\* the matches the server knows, newest first
RECURSIVE GamesFrom(_)
GamesFrom(m) ==
    IF m \notin Matches THEN <<>>
    ELSE (IF srv[m].phase = "none" THEN <<>> ELSE <<Summary(m)>>) \o GamesFrom(m + 1)

\* the badge of a match in the list
StatusBadge(game) ==
    IF game.status = "finished"
      THEN IF game.winner = "good" THEN "good_wins" ELSE "evil_wins"
    ELSE IF game.status = "in_progress" THEN "in_progress"
    ELSE "waiting"

\* the rest of the client while only the Home page changes
HomeOnly ==
    UNCHANGED <<selectedMessage, socket, replay, cfg, srv, page, id, loading, error, gameState, humanSeat,
                godMode, selectedPlayers, displayRound, pending, wire, emitted,
                submitted>>

\* loadData resolved: models and games are set, the rows are filled
HomeLoaded(ms) ==
    /\ page = "home"
    /\ home.loading
    /\ home' = [home EXCEPT !.models = ms,
                            !.games = GamesFrom(1),
                            !.loading = FALSE,
                            !.players = InitPlayers(home.playerCount, home.players, ms)]
    /\ HomeOnly

\* loadData threw
HomeLoadFail ==
    /\ page = "home"
    /\ home.loading
    /\ home' = [home EXCEPT !.loading = FALSE]
    /\ HomeOnly

\* setPlayerCount of a button and the effect on the rows
SetPlayerCount(count) ==
    home' = [home EXCEPT !.playerCount = count,
                         !.players = InitPlayers(count, home.players, home.models)]

\* the plus button
Plus ==
    /\ page = "home"
    /\ PlusEnabled
    /\ SetPlayerCount(Min(MaxPlayerCount, home.playerCount + 1))
    /\ HomeOnly

\* the minus button
Minus ==
    /\ page = "home"
    /\ MinusEnabled
    /\ SetPlayerCount(IF home.playerCount - 1 > MinPlayerCount
                        THEN home.playerCount - 1 ELSE MinPlayerCount)
    /\ HomeOnly

\* the rows the user edits
Rows == {i \in DOMAIN home.players : i <= MaxRow}

\* the human / AI button of a row
ToggleHuman(i) ==
    /\ page = "home"
    /\ i \in Rows
    /\ home' = [home EXCEPT !.players[i].is_human = ~@]
    /\ HomeOnly

\* the model select of an automated row
SelectModel(i, k) ==
    /\ page = "home"
    /\ i \in Rows
    /\ ~home.players[i].is_human
    /\ k \in DOMAIN home.models
    /\ home' = [home EXCEPT !.players[i].provider = home.models[k].provider,
                            !.players[i].model = home.models[k].model]
    /\ HomeOnly

\* handleGlobalModelChange
GlobalModel(k) ==
    /\ page = "home"
    /\ k \in DOMAIN home.models
    /\ home' = [home EXCEPT !.players =
                  [i \in DOMAIN home.players |->
                      [home.players[i] EXCEPT !.provider = home.models[k].provider,
                                              !.model = home.models[k].model]]]
    /\ HomeOnly

\* the create button: handleCreateGame up to its await
CreateClick ==
    /\ page = "home"
    /\ ~home.creating
    /\ home.models # <<>>
    /\ home.created = <<>>
    /\ home' = IF Valid(home.players)
                 THEN [home EXCEPT !.creating = TRUE,
                                   !.alert = "none",
                                   !.created = <<[player_count |-> home.playerCount,
                                                  players |-> home.players,
                                                  live |-> TRUE]>>]
               ELSE [home EXCEPT !.creating = FALSE, !.alert = "model"]
    /\ HomeOnly

\* the seat of the first human row of a request, NoSeat if there is none
FirstHuman(rows) ==
    LET humans == {i \in DOMAIN rows : rows[i].is_human}
    IN IF humans = {} THEN NoSeat
       ELSE rows[CHOOSE i \in humans : \A j \in humans : i <= j].seat

\* the server creates match 1 as requested; handleCreateGame navigates to it
CreateResponse ==
    /\ home.created # <<>>
    /\ srv[1].phase = "none"
    /\ Cardinality(pending) < MaxPending
    /\ LET c == [n |-> home.created[1].player_count,
                 human |-> FirstHuman(home.created[1].players)]
       IN /\ cfg' = [cfg EXCEPT ![1] = c]
          /\ \E hat \in HatChoices(c, "team_selection") :
                srv' = [srv EXCEPT ![1] = NewMatch(hat)]
    /\ home' = [HomeFresh EXCEPT !.created = <<>>]
    /\ id' = 1
    /\ pending' = pending \cup {Request(1, godMode, TRUE)}
    /\ emitted' = <<>>
    /\ IF page = "game"
         THEN /\ socket' = [socket EXCEPT !.room = IF socket.connected THEN 1 ELSE @]
              /\ UNCHANGED <<page, loading, error, wire, submitted, displayRound>>
       ELSE /\ page' = "game"
            /\ loading' = TRUE
            /\ error' = FALSE
            /\ wire' = <<>>
            /\ submitted' = FALSE
            /\ displayRound' = 1
            /\ socket' = Connected(1)
    /\ selectedMessage' = <<>>
    /\ UNCHANGED <<replay, gameState, humanSeat, godMode, selectedPlayers>>

\* createGame threw: alert, and the form (if still mounted) is enabled again
CreateFail ==
    /\ home.created # <<>>
    /\ home' = IF home.created[1].live
                 THEN [home EXCEPT !.created = <<>>, !.creating = FALSE,
                                   !.alert = "failed"]
               ELSE [home EXCEPT !.created = <<>>]
    /\ HomeOnly

\* the server aborts a match: a terminal outcome without a winner
ServerAbort(m) ==
    /\ srv[m].phase \notin {"none", "game_over"}
    /\ LET s2 == [srv[m] EXCEPT !.phase = "game_over", !.hat = "none"]
       IN /\ srv' = [srv EXCEPT ![m] = s2]
          /\ IF socket.room = m
               THEN /\ Len(wire) < MaxWire
                    /\ wire' = Append(wire, StateEvent(Project(m, cfg[m], s2, FALSE)))
             ELSE wire' = wire
    /\ emitted' = <<>>
    /\ UNCHANGED <<selectedMessage, socket, home, replay, cfg, page, id, loading, error, gameState, humanSeat,
                   godMode, selectedPlayers, displayRound, pending, submitted>>

----------------------------------------------------------------------------
\* The Replay page.

\* the recorded history of a match: proposals and rejected votes in turn and,
\* for a match that is over, the fifth rejection that ends it
Recorded(k, over) ==
    [i \in 1..k |->
        IF over /\ i = k
          THEN [NewMatch("none") EXCEPT !.phase = "game_over", !.winner = "evil"]
        ELSE IF i % 2 = 1 THEN NewMatch("none")
        ELSE [NewMatch("none") EXCEPT !.phase = "team_vote"]]

\* the answers getGameReplay can give for a match: its recorded states as
\* snapshots, filtered for the match's observer or unfiltered
Replays(m) ==
    LET kinds == {x \in (0..MaxStates) \X BOOLEAN \X BOOLEAN :
                    x[2] => (x[1] >= 3 /\ x[1] % 2 = 1)}
    IN {[i \in 1..x[1] |-> Project(m, cfg[m], Recorded(x[1], x[2])[i], x[3])] :
          x \in kinds}

\* the Replay page renders the board and the playback controls
ReplayMounted ==
    page = "replay" /\ ~replay.loading /\ ~replay.error /\ replay.states # <<>>

\* states[currentIndex]
currentState == replay.states[replay.currentIndex + 1]

\* mutant: the effect never stops at the last state
AutoPlayNoStop(r) == [r EXCEPT !.timer = r.playing]

\* mutant: the effect stops but leaves its timer armed
AutoPlayNoCleanup(r) ==
    IF ~r.playing \/ r.currentIndex >= Len(r.states) - 1
      THEN [r EXCEPT !.playing = FALSE]
    ELSE [r EXCEPT !.timer = TRUE]

\* the auto-play effect and its cleanup, run after a render that changed
\* playing, currentIndex or states.length
AutoPlay(r) ==
    IF ~r.playing \/ r.currentIndex >= Len(r.states) - 1
      THEN [r EXCEPT !.playing = FALSE, !.timer = FALSE]
    ELSE [r EXCEPT !.timer = TRUE]

\* mutant: next skips a state
NextIndexSkip(i, n) == Min(n - 1, i + 2)

\* Math.min(states.length - 1, i + 1)
NextIndex(i, n) == Min(n - 1, i + 1)

\* Math.max(0, i - 1)
PrevIndex(i) == IF i - 1 > 0 THEN i - 1 ELSE 0

\* the board of the Replay page follows the state shown: GameBoard's
\* displayRound, kept unless round or phase change
ReplayDisplay(r) ==
    IF r.loading \/ r.error \/ r.states = <<>> THEN 1
    ELSE LET shown == r.states[r.currentIndex + 1]
         IN IF ~ReplayMounted THEN DisplayEffect(shown, shown.current_round)
            ELSE IF shown.current_round # currentState.current_round
                    \/ shown.phase # currentState.phase
              THEN DisplayEffect(shown, displayRound)
            ELSE displayRound

\* the rest of the client while only the Replay page changes
ReplayOnly ==
    UNCHANGED <<selectedMessage, socket, home, cfg, srv, page, id, loading, error, gameState, humanSeat,
                godMode, selectedPlayers, pending, wire, emitted, submitted>>

\* the Replay page is opened by its address /replay/:id
OpenReplay(m) ==
    /\ page = "home"
    /\ page' = "replay"
    /\ id' = m
    /\ replay' = ReplayIdle
    /\ home' = Remount(home)
    /\ displayRound' = 1
    /\ UNCHANGED <<selectedMessage, socket, cfg, srv, loading, error, gameState, humanSeat, godMode,
                   selectedPlayers, pending, wire, emitted, submitted>>

\* navigate('/') of the Replay page: it unmounts, the effect's cleanup runs
ReplayBack ==
    /\ page = "replay"
    /\ ~replay.loading
    /\ page' = "home"
    /\ id' = NoMatch
    /\ replay' = ReplayIdle
    /\ home' = Remount(home)
    /\ displayRound' = 1
    /\ UNCHANGED <<selectedMessage, socket, cfg, srv, loading, error, gameState, humanSeat, godMode,
                   selectedPlayers, pending, wire, emitted, submitted>>

\* a step of the Replay page to the given state of the page
ReplayStep(r) ==
    /\ replay' = [r EXCEPT !.was = replay.playing]
    /\ displayRound' = ReplayDisplay(r)
    /\ ReplayOnly

\* loadReplay resolved
ReplayLoaded(recorded) ==
    /\ page = "replay"
    /\ replay.loading
    /\ ReplayStep(AutoPlay([replay EXCEPT !.states = recorded, !.loading = FALSE,
                                          !.last = "load"]))

\* loadReplay threw
ReplayLoadFail ==
    /\ page = "replay"
    /\ replay.loading
    /\ ReplayStep([replay EXCEPT !.error = TRUE, !.loading = FALSE, !.last = "load"])

\* the play / pause button
TogglePlay ==
    /\ ReplayMounted
    /\ ~(replay.currentIndex >= Len(replay.states) - 1)
    /\ ReplayStep(AutoPlay([replay EXCEPT !.playing = ~replay.playing, !.last = "play"]))

\* the auto-play timer fires
Tick ==
    /\ ReplayMounted
    /\ replay.timer
    /\ ReplayStep(AutoPlay([replay EXCEPT !.currentIndex = replay.currentIndex + 1,
                                          !.last = "tick"]))

\* handlePrev
handlePrev ==
    /\ ReplayMounted
    /\ ~(replay.currentIndex = 0)
    /\ ReplayStep(AutoPlay([replay EXCEPT !.currentIndex = PrevIndex(replay.currentIndex),
                                          !.playing = FALSE, !.last = "prev"]))

\* handleNext
handleNext ==
    /\ ReplayMounted
    /\ ~(replay.currentIndex >= Len(replay.states) - 1)
    /\ ReplayStep(AutoPlay([replay EXCEPT
            !.currentIndex = NextIndex(replay.currentIndex, Len(replay.states)),
            !.playing = FALSE, !.last = "next"]))

\* handleSeek from a button of the timeline
handleSeek(index) ==
    /\ ReplayMounted
    /\ index \in 0..(Len(replay.states) - 1)
    /\ ReplayStep(AutoPlay([replay EXCEPT !.currentIndex = index, !.playing = FALSE,
                                          !.last = "seek"]))

----------------------------------------------------------------------------
\* Specifications.

\* the quests resolved before a match is found at the start of a round:
\* success and failure in turn
History(round) == SubSeq(<<TRUE, FALSE, TRUE, FALSE>>, 1, round - 1)

\* the discussion collected before a match is found at the start of a round:
\* one entry of round 1 once round 1 is over
Talk(round) ==
    IF round > 1 THEN <<[seat |-> 0, round |-> 1, attempt |-> 1, timestamp |-> 1]>>
    ELSE <<>>

\* a match found at the start of a round
FoundAt(round, hat) ==
    [NewMatch(hat) EXCEPT !.round = round, !.results = History(round),
                          !.disc = Talk(round)]

\* match 2: a five-player match found waiting for its human Assassin
Match2Config == [n |-> 5, human |-> 1]
Match2State ==
    [phase |-> "assassination", round |-> 3, hat |-> "assassinate",
     results |-> <<TRUE, TRUE, TRUE>>, disc |-> <<>>, adisc |-> <<>>,
     target |-> NoSeat, winner |-> "none"]

\* the client opened on the home page; match 1 has one of the given player
\* counts and is found at the start of one of the given rounds
InitWith(counts, rounds) ==
    /\ \E n \in counts : \E h \in HumanSeats(n) :
          cfg = [m \in Matches |-> IF m = 1 THEN [n |-> n, human |-> h] ELSE Match2Config]
    /\ \E round \in rounds : \E hat \in HatChoices(cfg[1], "team_selection") :
          srv = [m \in Matches |-> IF m = 1 THEN FoundAt(round, hat) ELSE Match2State]
    /\ page = "home"
    /\ id = NoMatch
    /\ loading = FALSE
    /\ error = FALSE
    /\ gameState = <<>>
    /\ humanSeat = NoSeat
    /\ godMode = FALSE
    /\ selectedPlayers = <<>>
    /\ displayRound = 1
    /\ pending = {}
    /\ wire = <<>>
    /\ emitted = <<>>
    /\ submitted = FALSE
    /\ home = HomeFresh
    /\ replay = ReplayIdle
    /\ socket = SocketIdle
    /\ selectedMessage = <<>>

\* the human plays one match from its first round on: no god mode, no
\* discussion traffic, no round browsing
InitPlay == InitWith(PlayerCounts, {1})

NextPlay ==
    \/ OpenGame(1)
    \/ Back
    \/ \E r \in pending : LoadResponse(r)
    \/ ServerAdvance(1)
    \/ SockRecv
    \/ \E seat \in Seats(10) : ClickPlayer(seat)
    \/ SubmitTeam
    \/ SendDiscussion
    \/ \E approve \in BOOLEAN : Vote(approve)
    \/ \E success \in BOOLEAN : QuestVote(success)
    \/ SendAssassinationDiscussion
    \/ Assassinate

SpecPlay == InitPlay /\ [][NextPlay]_vars

\* an observer watches one match from its last round on and switches god
\* mode: snapshots, the Evil team's discussion and round browsing, no human action
InitView == InitWith({5}, {5})

NextView ==
    \/ OpenGame(1)
    \/ Back
    \/ \E r \in pending : LoadResponse(r)
    \/ \E r \in pending : LoadFail(r)
    \/ ToggleGodMode
    \/ ServerAdvance(1)
    \/ ServerAssassinationDiscuss(1)
    \/ SockRecv
    \/ \E round \in Rounds \cup {ASSASSINATION} : ClickRound(round)

SpecView == InitView /\ [][NextView]_vars

\* the match collects discussion entries in its last round while the client
\* watches it, leaves it and comes back
InitTalk == InitWith({5}, {5})

NextTalk ==
    \/ OpenGame(1)
    \/ Back
    \/ \E r \in pending : LoadResponse(r)
    \/ ServerAdvance(1)
    \/ ServerDiscuss(1)
    \/ SockRecv

SpecTalk == InitTalk /\ [][NextTalk]_vars

\* the human goes from one match to the other while both wait for the human:
\* match 1 for the team of its first round, match 2 for the Assassin's target
InitHop == InitWith({5, 7}, {1})

NextHop ==
    \/ \E m \in Matches : OpenGame(m)
    \/ Back
    \/ \E r \in pending : LoadResponse(r)
    \/ \E seat \in Seats(10) : ClickPlayer(seat)
    \/ SubmitTeam
    \/ Assassinate

SpecHop == InitHop /\ [][NextHop]_vars

\* the user fills the match-creation form, creates match 1 and comes back to
\* the match list, while the server may abort a match
InitHome ==
    /\ cfg = [m \in Matches |-> IF m = 1 THEN [n |-> DefaultPlayerCount, human |-> NoSeat]
                                ELSE Match2Config]
    /\ srv = [m \in Matches |-> IF m = 1 THEN [NewMatch("none") EXCEPT !.phase = "none"]
                                ELSE Match2State]
    /\ page = "home"
    /\ id = NoMatch
    /\ loading = FALSE
    /\ error = FALSE
    /\ gameState = <<>>
    /\ humanSeat = NoSeat
    /\ godMode = FALSE
    /\ selectedPlayers = <<>>
    /\ displayRound = 1
    /\ pending = {}
    /\ wire = <<>>
    /\ emitted = <<>>
    /\ submitted = FALSE
    /\ home = HomeFresh
    /\ replay = ReplayIdle
    /\ socket = SocketIdle
    /\ selectedMessage = <<>>

NextHome ==
    \/ \E ms \in ModelLists : HomeLoaded(ms)
    \/ HomeLoadFail
    \/ Plus
    \/ Minus
    \/ \E i \in 1..MaxPlayerCount : ToggleHuman(i)
    \/ \E i \in 1..MaxPlayerCount, k \in 1..2 : SelectModel(i, k)
    \/ \E k \in 1..2 : GlobalModel(k)
    \/ CreateClick
    \/ CreateResponse
    \/ CreateFail
    \/ Back
    \/ \E r \in pending : LoadResponse(r)
    \/ \E m \in Matches : ServerAbort(m)

SpecHome == InitHome /\ [][NextHome]_vars

\* the user opens the replay of match 1 and plays it back
InitReplay == InitWith(PlayerCounts, {1})

NextReplay ==
    \/ OpenReplay(1)
    \/ ReplayBack
    \/ \E recorded \in Replays(1) : ReplayLoaded(recorded)
    \/ ReplayLoadFail
    \/ TogglePlay
    \/ Tick
    \/ handlePrev
    \/ handleNext
    \/ \E index \in 0..MaxStates : handleSeek(index)

SpecReplay == InitReplay /\ [][NextReplay]_vars

\* auto-play left alone: while the replay plays the user does nothing, and a
\* timer that is armed fires
NextAuto ==
    \/ Tick
    \/ /\ ~replay.playing
       /\ \/ OpenReplay(1)
          \/ ReplayBack
          \/ \E recorded \in Replays(1) : ReplayLoaded(recorded)
          \/ TogglePlay
          \/ handlePrev
          \/ handleNext
          \/ \E index \in 0..MaxStates : handleSeek(index)

SpecAuto == InitReplay /\ [][NextAuto]_vars /\ WF_vars(Tick)

\* an observer goes from one match to the other and switches god mode while
\* match 1 goes on
InitRoam == InitWith({7}, {5})

NextRoam ==
    \/ \E m \in Matches : OpenGame(m)
    \/ Back
    \/ \E r \in pending : LoadResponse(r)
    \/ ToggleGodMode
    \/ ServerAdvance(1)
    \/ SockRecv

SpecRoam == InitRoam /\ [][NextRoam]_vars

\* the human plays the last round of a five-player match while the server
\* notifies the room of the vote, the quest and the assassination it resolves,
\* and god mode is switched
InitNotice == InitWith({5}, {5})

NextNotice ==
    \/ OpenGame(1)
    \/ \E r \in pending : LoadResponse(r)
    \/ ToggleGodMode
    \/ ServerAdvance(1)
    \/ ServerNotify(1)
    \/ SockRecv
    \/ \E seat \in Seats(5) : ClickPlayer(seat)

SpecNotice == InitNotice /\ [][NextNotice]_vars

\* the user clicks player cards through the last round of a five-player
\* match, as the human of the match or as a spectator
InitClick == InitWith({5}, {5})

NextClick ==
    \/ OpenGame(1)
    \/ Back
    \/ \E r \in pending : LoadResponse(r)
    \/ ServerAdvance(1)
    \/ SockRecv
    \/ \E seat \in Seats(5) : ClickCard(seat)

SpecClick == InitClick /\ [][NextClick]_vars

\* an observer watches the last round of a five-player match over a
\* connection that drops and comes back
InitLink == InitWith({5}, {5})

NextLink ==
    \/ OpenGame(1)
    \/ Back
    \/ \E r \in pending : LoadResponse(r)
    \/ ServerAdvance(1)
    \/ SockRecv
    \/ Disconnect
    \/ Reconnect

SpecLink == InitLink /\ [][NextLink]_vars

\* an observer in god mode reads the discussion of the last round of a
\* five-player match and of its assassination, and opens the details of entries
InitDetail == InitWith({5}, {5})

NextDetail ==
    \/ OpenGame(1)
    \/ \E r \in pending : LoadResponse(r)
    \/ ToggleGodMode
    \/ ServerAdvance(1)
    \/ ServerDiscuss(1)
    \/ ServerAssassinationDiscuss(1)
    \/ SockRecv
    \/ \E i \in 1..(MaxDisc + 1) : ClickMessage(i)
    \/ CloseModal

SpecDetail == InitDetail /\ [][NextDetail]_vars

----------------------------------------------------------------------------
\* Claims about the human controls.

\* the message of the given type the last step emitted, if any
Emitted(type) == emitted # <<>> /\ emitted[1].type = type

\* the seats of a selection
SeatSet(selection) == {selection[i] : i \in DOMAIN selection}

\* C1: a team proposal is sent only with as many seats as the rule table
\* gives for the player count and the round of the state it was made in
C1_TeamSizeIsTableSize ==
    Emitted("human_team_select") =>
        Len(emitted[1].team) = QUEST_SIZES(GS.player_count)[GS.current_round]

\* C2: a quest vote of fail is emitted only when the human's own player in the
\* client state has team evil, and then the human is on the Evil team of the
\* opened match
C2_FailOnlyFromEvil ==
    (Emitted("human_quest") /\ ~emitted[1].flag) =>
        /\ isEvil
        /\ cfg[id].human # NoSeat
        /\ TeamOf(RoleOf(cfg[id].n, cfg[id].human)) = "evil"

\* an Evil human has just sent a fail on a quest
C2_Witness ==
    /\ Emitted("human_quest") /\ ~emitted[1].flag
    /\ GS.players[humanSeat + 1].team = "evil"

\* C7: once the human has submitted, no further human action is emitted before
\* a snapshot is applied
C7_OneActionPerDecisionPoint == [][emitted' # <<>> => ~submitted]_vars

\* C9: the selection holds no seat twice, a click on a selected seat removes
\* it, and two clicks on one seat give back the same set of seats
C9_SelectionIsSet ==
    /\ Cardinality(SeatSet(selectedPlayers)) = Len(selectedPlayers)
    /\ Emitted("human_team_select") =>
          Cardinality(SeatSet(emitted[1].team)) = Len(emitted[1].team)
    /\ \A seat \in Seats(10) :
          LET once == togglePlayerSelection(selectedPlayers, seat)
              twice == togglePlayerSelection(once, seat)
          IN /\ Includes(selectedPlayers, seat) => ~Includes(once, seat)
             /\ ~Includes(selectedPlayers, seat) => Includes(once, seat)
             /\ SeatSet(twice) = SeatSet(selectedPlayers)

\* a team of several seats has just been submitted
C9_Witness ==
    /\ Emitted("human_team_select")
    /\ Len(emitted[1].team) >= 2
    /\ selectedPlayers = <<>>

\* the decision point the store waits at for a selection of seats: <<>> for
\* none, else the match, the round and the action type
SelectionPoint(gs, seat) ==
    IF gs # <<>> /\ seat # NoSeat /\ gs[1].waiting_for_human
       /\ gs[1].human_action_type \in {"team_selection", "assassinate"}
      THEN <<gs[1].id, gs[1].current_round, gs[1].human_action_type>>
    ELSE <<>>

\* C24: when a team_selection or assassinate decision point of the human
\* opens, the selection is empty
C24_SelectionEmptyWhenPointOpens ==
    [][(/\ SelectionPoint(gameState', humanSeat') # <<>>
        /\ SelectionPoint(gameState', humanSeat') # SelectionPoint(gameState, humanSeat))
            => selectedPlayers' = <<>>]_vars

\* C25: a click on a player changes the selection exactly while the store
\* waits for the human and the action type is team_selection or assassinate;
\* every other click, and every click of a spectator, leaves it as it is
C25_ClickChangesSelectionOnlyOnTurn ==
    [][(\E seat \in Seats(5) : ClickCard(seat)) =>
          (selectedPlayers' # selectedPlayers <=>
              /\ GS.waiting_for_human
              /\ humanSeat # NoSeat
              /\ GS.human_action_type \in {"team_selection", "assassinate"})]_vars

\* the human left a seat selected at a team_selection point and the board now
\* waits for another action of the human, where clicks are dead
C25_Witness ==
    /\ BoardMounted
    /\ selectedPlayers # <<>>
    /\ isHumanTurn
    /\ GS.human_action_type \notin {"team_selection", "assassinate"}

\* C26: the human seat is set only while the loaded match has a human player
C26_HumanSeatOnlyWithHuman ==
    (gameState # <<>> /\ humanSeat # NoSeat) =>
        \E i \in DOMAIN GS.players : GS.players[i].is_human

----------------------------------------------------------------------------
\* Claims about what an observer is shown.

\* what the match's observer may know of a seat without reveal-all
Entitled(state, player) ==
    LET g == Grant(cfg[state.id].n, cfg[state.id].human, player.seat)
    IN /\ player.role # "none" => g = "all"
       /\ player.team # "none" => g \in {"all", "team"}

\* Discussion: the per-member quest votes of the displayed round are rendered
ShowsQuestVotes ==
    /\ BoardMounted
    /\ displayRound # ASSASSINATION
    /\ GS.discussion_history # <<>>
    /\ \E k \in DOMAIN GS.quest_results :
          /\ GS.quest_results[k].round = displayRound
          /\ \A j \in DOMAIN GS.quest_results :
                GS.quest_results[j].round = displayRound => k <= j
          /\ DOMAIN GS.quest_results[k].quest_votes # {}

\* GameBoard.assassinationMessages or HumanControls render the Evil team's
\* discussion
ShowsAssassinationDiscussion ==
    /\ BoardMounted
    /\ GS.assassination_discussion_history # <<>>
    /\ \/ displayRound = ASSASSINATION
       \/ isHumanTurn /\ actionType \in {"assassination_discussion", "assassinate"}

\* PlayerCard renders the role badge of the player
ShowsRole(player) == showRoles(GS, humanSeat, godMode) /\ player.role # "none"

\* the observer of the opened match is on the Evil team
ObserverIsEvil ==
    /\ cfg[id].human # NoSeat
    /\ TeamOf(RoleOf(cfg[id].n, cfg[id].human)) = "evil"

\* C3: with god mode off and the match unfinished, the client state holds no
\* role or team beyond the observer's knowledge grant
C3_NoRevealedRolesWithoutGodMode ==
    (gameState # <<>> /\ ~godMode /\ GS.status # "finished") =>
        \A i \in DOMAIN GS.players : Entitled(GS, GS.players[i])

\* C4: without god mode the per-member votes of a resolved quest are not shown
C4_QuestVotesNotShown == (BoardMounted /\ ~godMode) => ~ShowsQuestVotes

\* C5: the Evil team's assassination discussion is shown only to an Evil
\* observer or in god mode
C5_AssassinationDiscussionPrivate ==
    ShowsAssassinationDiscussion => (godMode \/ ObserverIsEvil)

\* C6: at game_over the board shows every player's role, whatever god mode
\* and the human seat are
C6_AllRolesShownAtGameOver ==
    (BoardMounted /\ GS.phase = "game_over") =>
        \A i \in DOMAIN GS.players :
            /\ ShowsRole(GS.players[i])
            /\ GS.players[i].role = RoleOf(cfg[GS.id].n, GS.players[i].seat)

\* a spectator without god mode looks at a finished match
C6_Witness ==
    /\ BoardMounted /\ GS.phase = "game_over"
    /\ humanSeat = NoSeat /\ ~godMode

----------------------------------------------------------------------------
\* Claims about the discussion history.

\* the socket handler takes an event of the given type off the wire
Handles(type) ==
    /\ wire # <<>> /\ Head(wire).type = type
    /\ wire' = Tail(wire) /\ page' = page

\* a snapshot is applied: a game:state event or a getGame response
SnapshotStep == Handles("game:state") \/ pending' # pending

\* p is a prefix of q
IsPrefix(p, q) == Len(p) <= Len(q) /\ SubSeq(q, 1, Len(p)) = p

C21_NoEntryTwice ==
    gameState # <<>> =>
        \A i, j \in DOMAIN GS.discussion_history :
            i # j => GS.discussion_history[i] # GS.discussion_history[j]

----------------------------------------------------------------------------
\* Claims about the connection.

\* C27: while the Game page is open and the socket is connected, the client
\* has emitted join_game for the opened match since the latest connect
C27_JoinedWhileConnected ==
    (page = "game" /\ socket.connected) => socket.room = id

----------------------------------------------------------------------------
\* Claims about the notifications.

\* C22: handling a game:vote_result, game:quest_result or game:assassination
\* notification leaves the game state, the human seat, god mode and the
\* selection as they are
C22_NotificationsChangeNothing ==
    [][(\E type \in Notifications : Handles(type)) =>
          UNCHANGED <<gameState, humanSeat, godMode, selectedPlayers>>]_vars

\* a notification was handled with a state loaded, a human seated, god mode
\* on and a seat selected
C22_Witness ==
    /\ socket.logged \in Notifications
    /\ wire = <<>>
    /\ gameState # <<>>
    /\ humanSeat # NoSeat
    /\ godMode
    /\ selectedPlayers # <<>>

----------------------------------------------------------------------------
\* Claims about the details of a discussion entry.

\* C29: the details request of a discussion entry carries the attempt
\* parameter exactly when the entry's attempt is defined and greater than 0,
\* and then it is that attempt; the entries of the assassination discussion
\* (placeholder attempt 0) are requested without it
C29_AttemptSentWhenPositive ==
    selectedMessage # <<>> =>
        LET msg == selectedMessage[1]
        IN /\ requested # <<>>
           /\ requested[1].attempt # <<>> <=> (msg.attempt # Undefined /\ msg.attempt > 0)
           /\ msg.attempt \in {1, 2} => requested[1].attempt = <<String(msg.attempt)>>
           /\ msg.attempt = 0 => requested[1].attempt = <<>>

\* the details of an entry of the assassination discussion are open
C29_Witness ==
    /\ selectedMessage # <<>>
    /\ selectedMessage[1].attempt = 0
    /\ requested # <<>>
    /\ requested[1].action_type = "assassination_discussion"
    /\ requested[1].attempt = <<>>

----------------------------------------------------------------------------
\* Claims about the round shown.

\* C28: every change of the phase or of the current round resets the round
\* shown, to the assassination view in the two assassination phases and to
\* the current round otherwise (game_over included); without such a change
\* the round shown changes only by a click on the tracker
C28_DisplayRoundFollowsPhase ==
    [][(BoardMounted /\ Mounted(page', loading', error', gameState')) =>
          IF gameState'[1].phase # GS.phase
             \/ gameState'[1].current_round # GS.current_round
            THEN displayRound' =
                    IF gameState'[1].phase \in {"assassination_discussion", "assassination"}
                      THEN ASSASSINATION
                    ELSE gameState'[1].current_round
          ELSE \/ displayRound' = displayRound
               \/ \E round \in Rounds \cup {ASSASSINATION} : ClickRound(round)]_vars

\* the match is in its assassination phase and the board shows a round
\* selected by hand
C28_Witness ==
    /\ BoardMounted
    /\ GS.phase = "assassination"
    /\ displayRound \in Rounds
    /\ displayRound # GS.current_round

----------------------------------------------------------------------------
\* Claims about the verdict of the assassination.

\* C23: at game_over after an assassination the banner and the tracker's
\* marker give the same verdict, success of the assassination exactly when
\* the winner is evil and failure exactly when the winner is good
C23_VerdictsAgree ==
    (BoardMounted /\ GS.phase = "game_over" /\ GS.assassinated_player # NoSeat) =>
        /\ AssassinationVerdict(GS) = TrackerVerdict(GS)
        /\ TrackerVerdict(GS) = "evil_wins" <=> GS.winner = "evil"
        /\ TrackerVerdict(GS) = "good_wins" <=> GS.winner = "good"

\* the board shows the assassination view of a match the Assassin lost
C23_Witness ==
    /\ BoardMounted
    /\ GS.phase = "game_over"
    /\ GS.assassinated_player # NoSeat
    /\ GS.winner = "good"
    /\ displayRound = ASSASSINATION
    /\ TrackerVerdict(GS) = "good_wins"

----------------------------------------------------------------------------
\* Claims about the Home page.

\* C11: the player counts of the form are exactly 5..10: the count shown and
\* the count of a request lie in 5..10, and the plus and minus buttons lead to
\* every count of that range
C11_PlayerCountsAreFiveToTen ==
    /\ home.playerCount \in PlayerCounts
    /\ home.created # <<>> => home.created[1].player_count \in PlayerCounts
    /\ (page = "home" /\ home.playerCount < 10) => PlusEnabled
    /\ (page = "home" /\ home.playerCount > 5) => MinusEnabled

\* C12: a create request in flight carries no automated player without model
\* or provider, and the creating flag is set only while a request is in flight
C12_CreateOnlyWhenValid ==
    /\ home.created # <<>> =>
          \A i \in DOMAIN home.created[1].players :
             LET player == home.created[1].players[i]
             IN player.is_human \/ (player.model # "" /\ player.provider # "")
    /\ home.creating => home.created # <<>>

\* the create button was pressed with an automated row lacking its model: the
\* alert was shown, nothing was sent and the button is enabled again
C12_Witness ==
    /\ page = "home"
    /\ home.alert = "model"
    /\ ~Valid(home.players)
    /\ home.created = <<>>
    /\ ~home.creating

\* C13: a finished match without a winner is labelled as a win of neither
\* team, in the match list and on the board
C13_AbandonedIsNoWin ==
    /\ page = "home" =>
          \A i \in DOMAIN home.games :
             (home.games[i].status = "finished" /\ home.games[i].winner = "none")
                => StatusBadge(home.games[i]) \notin {"good_wins", "evil_wins"}
    /\ (BoardMounted /\ GS.status = "finished" /\ GS.winner = "none")
          => AssassinationVerdict(GS) = "none"

----------------------------------------------------------------------------
\* Claims about the Replay page.

\* the index moved by at most one state
OneStep == replay'.currentIndex - replay.currentIndex \in {-1, 0, 1}

\* C14: the quest tracker shows the assassination step only for a match in
\* which Good completed three quests
C14_AssassinationStepOnlyAfterThreeSuccesses ==
    (BoardMounted /\ showAssassination(GS)) =>
        Cardinality({k \in DOMAIN GS.quest_results : GS.quest_results[k].success}) >= 3

\* C15: with recorded states on the page the index stays within 0..length-1,
\* and previous, next and the auto-play timer move it by at most one state
C15_IndexInRange ==
    /\ [](ReplayMounted => replay.currentIndex \in 0..(Len(replay.states) - 1))
    /\ [][(ReplayMounted /\ replay' # replay /\ replay'.last \in {"prev", "next", "tick"})
            => OneStep]_vars

\* the timer advanced the replay to a state that is not the first
C15_Witness ==
    /\ ReplayMounted
    /\ replay.last = "tick"
    /\ replay.currentIndex >= 1

\* C16: auto-play, left alone, reaches the last state and switches itself off;
\* playing is never true at the last state
C16_AutoPlayReachesEnd ==
    /\ [](ReplayMounted => ~(replay.playing
                             /\ replay.currentIndex >= Len(replay.states) - 1))
    /\ (ReplayMounted /\ replay.playing)
          ~> (ReplayMounted /\ ~replay.playing
              /\ replay.currentIndex = Len(replay.states) - 1)

\* auto-play ran from the first state to the last and switched itself off
C16_Witness ==
    /\ ReplayMounted
    /\ Len(replay.states) >= 3
    /\ replay.last = "tick"
    /\ replay.currentIndex = Len(replay.states) - 1
    /\ ~replay.playing
    /\ ~replay.timer

\* C17: previous, next and seek stop auto-play and cancel its timer, no timer
\* is armed while auto-play is off, and the timer advances the replay only
\* while auto-play is on
C17_ManualStopsAutoPlay ==
    /\ [](replay.timer => replay.playing)
    /\ [][(replay' # replay /\ replay'.last \in {"prev", "next", "seek"})
            => (~replay'.playing /\ ~replay'.timer)]_vars
    /\ [][(replay' # replay /\ replay'.last = "tick") => replay.playing]_vars

\* the user stepped back while the replay was playing
C17_Witness ==
    /\ ReplayMounted
    /\ replay.last = "prev"
    /\ replay.was
    /\ ~replay.playing
    /\ ~replay.timer

\* C18: the board shows roles exactly for a finished state, a human seat or
\* god mode; the Replay page, which passes neither seat nor god mode, hides
\* the roles of an unfinished state
C18_RolesHiddenInReplay ==
    /\ BoardMounted =>
          (showRoles(GS, humanSeat, godMode)
             <=> (GS.status = "finished" \/ humanSeat # NoSeat \/ godMode))
    /\ (ReplayMounted /\ currentState.status # "finished")
          => ~showRoles(currentState, Undefined, FALSE)

----------------------------------------------------------------------------
\* Claims about the god-mode merge of snapshots.

\* the snapshots a step applies to the store: the game:state event taken off
\* the wire, or the answer to the getGame request that left the requests in
\* flight and changed the state
Applied ==
    IF Handles("game:state") THEN {Head(wire).state[1]}
    ELSE IF pending' # pending /\ pending' \subseteq pending /\ gameState' # gameState
      THEN {Project(r.id, cfg[r.id], srv[r.id], r.revealAll) : r \in pending \ pending'}
    ELSE {}

\* the entry the state holds for a seat, as a set: empty if it holds none
HeldFor(seat) ==
    IF gameState = <<>> THEN {}
    ELSE {GS.players[i] : i \in {j \in DOMAIN GS.players :
                                   /\ GS.players[j].seat = seat
                                   /\ \A k \in DOMAIN GS.players :
                                         GS.players[k].seat = seat => j <= k}}

\* C19: in god mode an applied snapshot keeps the held role and team of every
\* seat it gives no role for, a role it gives wins over the held one and all
\* else comes from the snapshot; with god mode off the snapshot replaces the
\* state as it is
C19_GodModeMerge ==
    [][\A new \in Applied :
          /\ gameState' # <<>>
          /\ [gameState'[1] EXCEPT !.players = new.players] = new
          /\ DOMAIN gameState'[1].players = DOMAIN new.players
          /\ ~godMode => gameState'[1] = new
          /\ godMode =>
                \A i \in DOMAIN new.players :
                   LET given == new.players[i]
                       result == gameState'[1].players[i]
                       kept == {h \in HeldFor(given.seat) : h.role # "none"}
                   IN /\ given.role # "none" => result = given
                      /\ (given.role = "none" /\ kept = {}) => result = given
                      /\ (given.role = "none" /\ kept # {}) =>
                            \A h \in kept :
                               result = [given EXCEPT !.role = h.role, !.team = h.team]]_vars

\* in god mode a filtered snapshot was merged into a revealed state: the
\* spectator's state holds every role but no per-member quest vote
C19_Witness ==
    /\ BoardMounted
    /\ godMode
    /\ cfg[id].human = NoSeat
    /\ GS.phase # "game_over"
    /\ \A i \in DOMAIN GS.players : GS.players[i].role # "none"
    /\ GS.quest_results # <<>>
    /\ DOMAIN GS.quest_results[1].quest_votes = {}

\* C20: the state of the opened match holds no role that belongs to another
\* match: every role it gives a seat is the role of that seat in this match
C20_NoRoleOfAnotherMatch ==
    (page = "game" /\ gameState # <<>> /\ GS.id = id) =>
        \A i \in DOMAIN GS.players :
            GS.players[i].role # "none" =>
                GS.players[i].role = RoleOf(cfg[id].n, GS.players[i].seat)

----------------------------------------------------------------------------
\* Claims about the assassination target.

\* C8: a human_assassinate action carries a seat of the opened match
C8_TargetIsSeatOfMatch ==
    Emitted("human_assassinate") => emitted[1].target \in Seats(cfg[id].n)

====
